---- MODULE Spec2Model ----
(***************************************************************************)
(* Model of CantileveredBeamProblem (src/cantilevered_beam_problem.py).    *)
(*                                                                         *)
(* Numbers.  Every real input (H, h1, b1, b2) and every entry of           *)
(* possibleValues is held as an integer number of hundredths: H = 5.0 is   *)
(* 500, fh1 = 0.26 is 26.  A returned value is a fixed-point record        *)
(* [w, f] meaning w + f/10^4 (a product of two hundredths has four         *)
(* decimals), so 468.0 is [w |-> 468, f |-> 0] and 1e9 is                   *)
(* [w |-> 10^9, f |-> 0].  The moment of inertia is held exactly as the    *)
(* integer N = 12 * 10^8 * I, split in two limbs [hi, lo] of base 10^4     *)
(* because N exceeds 2^31.  The arithmetic is exact.  The code computes in *)
(* IEEE-754 doubles; for inputs in hundredths a comparison of the code can *)
(* differ from the exact one only where the exact values are equal, and    *)
(* the outcome of the code's float comparison on those inputs is recorded  *)
(* in G1RoundsAbove (the float g2 never differs).                          *)
(*                                                                         *)
(* A list element is a record [t, v]: t = "num" (an int or float) or "dec" *)
(* (a decimal.Decimal) with value v, or one of "nan" (float NaN), "inf"    *)
(* (float infinity), "str" (a non-numeric object).                         *)
(* A candidate is [ctype, elems]: ctype is the Python container type.      *)
(***************************************************************************)
EXTENDS Integers, Sequences, FiniteSets

VARIABLES self, rng, frames, solution, origin, result

vars == <<self, rng, frames, solution, origin, result>>

\* ---- bounds of the model ----
Margin == 1       \* grid steps taken outside each variable's interval
MaxLen == 5       \* longest candidate sequence
RandDen == 2      \* a word of the generator is one of 0..RandDen
NumCallers == 2   \* concurrent callers
MaxDraws == 5     \* draws from the generator in one behaviour

Base == 10^4

\* ---- the instance built by __init__ ----
InitSelf ==
    [P |-> 1000,
     E |-> 10000000,
     L |-> 36,
     possibleValues |-> <<10, 26, 35, 50, 65, 75, 90, 100>>,
     bounds |-> [H  |-> <<300, 700>>,
                 h1 |-> <<0, 7>>,
                 b1 |-> <<200, 1200>>,
                 b2 |-> <<10, 200>>]]

PENALTY == [w |-> 10^9, f |-> 0]

\* ---- elements and candidates ----
Num(x) == [t |-> "num", v |-> x]

\* A decimal.Decimal: it compares with floats and rounds like one, and
\* arithmetic between it and a float raises TypeError.
Dec(x) == [t |-> "dec", v |-> x]

Specials == {[t |-> s, v |-> 0] : s \in {"nan", "inf", "str"}}

HValues  == {300 + 100 * k : k \in (0 - Margin)..(4 + Margin)}
H1Values == {50 * k        : k \in (0 - 2 * Margin)..(14 + 2 * Margin)}
B1Values == {200 + 100 * k : k \in (0 - Margin)..(10 + Margin)}
B2Values == {10 + 10 * k   : k \in (0 - Margin)..(19 + Margin)}

Elems(S) == {Num(x) : x \in S} \cup Specials

FourCandidates ==
    {[ctype |-> "list", elems |-> <<eH, eh1, eb1, eb2>>] :
        eH \in Elems(HValues), eh1 \in Elems(H1Values),
        eb1 \in Elems(B1Values), eb2 \in Elems(B2Values)}

ShortElems == {Num(500), [t |-> "str", v |-> 0]}

OtherLengthCandidates ==
    {[ctype |-> ct, elems |-> s] :
        ct \in {"list", "tuple"},
        s \in UNION {[1..n -> ShortElems] : n \in (0..MaxLen) \ {4}}}

OtherTypeCandidates ==
    {[ctype |-> "other", elems |-> s] :
        s \in {<<>>, <<Num(500), Num(700), Num(500), Num(100)>>}}

\* The in-bounds designs <<H, h1, b1, b2>> (h1 the index) whose g1 is exactly
\* 5000 and whose float g1 the code computes as 5000.000000000001.
G1RoundsAbove ==
    {<<300, 3, 632, 119>>, <<300, 3, 640, 100>>, <<300, 5, 526, 158>>,
     <<300, 5, 527, 151>>, <<300, 5, 528, 144>>, <<300, 5, 529, 137>>,
     <<300, 5, 530, 130>>, <<300, 5, 531, 123>>, <<300, 5, 534, 102>>,
     <<300, 5, 535, 95>>, <<300, 5, 537, 81>>, <<300, 5, 539, 67>>,
     <<300, 5, 542, 46>>, <<300, 5, 543, 39>>, <<300, 7, 495, 90>>,
     <<300, 7, 496, 64>>, <<300, 7, 497, 38>>, <<340, 7, 401, 10>>,
     <<400, 3, 351, 159>>, <<400, 3, 378, 122>>, <<400, 3, 405, 85>>,
     <<400, 7, 284, 172>>, <<400, 7, 286, 158>>, <<400, 7, 288, 144>>,
     <<400, 7, 290, 130>>, <<400, 7, 297, 81>>, <<400, 7, 301, 53>>,
     <<400, 7, 304, 32>>, <<400, 7, 305, 25>>, <<400, 7, 306, 18>>,
     <<450, 5, 232, 169>>, <<450, 5, 240, 150>>}

\* Designs whose g1 is exactly 5000, float g1 included, and g2 <= 0.10.
G1AtLimit ==
    {<<450, 5, 224, 188>>, <<450, 5, 248, 131>>, <<450, 5, 256, 112>>,
     <<450, 5, 264, 93>>, <<450, 5, 272, 74>>, <<450, 5, 280, 55>>,
     <<450, 5, 288, 36>>, <<450, 5, 296, 17>>, <<450, 7, 255, 12>>,
     <<500, 3, 224, 124>>, <<500, 3, 288, 63>>, <<500, 7, 216, 16>>,
     <<525, 3, 257, 68>>, <<540, 6, 200, 25>>, <<600, 3, 245, 29>>,
     <<700, 3, 216, 13>>}

\* Designs whose g2 is exactly 0.10 and g1 <= 5000.
G2AtLimit ==
    {<<300, 6, 728, 153>>, <<300, 6, 736, 36>>, <<310, 7, 652, 80>>,
     <<315, 6, 644, 48>>, <<320, 7, 594, 130>>, <<360, 6, 429, 197>>,
     <<360, 6, 430, 190>>, <<360, 6, 431, 183>>, <<360, 6, 432, 176>>,
     <<360, 6, 433, 169>>, <<360, 6, 434, 162>>, <<360, 6, 435, 155>>,
     <<360, 6, 436, 148>>, <<360, 6, 437, 141>>, <<360, 6, 438, 134>>,
     <<360, 6, 439, 127>>, <<360, 6, 440, 120>>, <<360, 6, 441, 113>>,
     <<360, 6, 442, 106>>, <<360, 6, 443, 99>>, <<360, 6, 444, 92>>,
     <<360, 6, 445, 85>>, <<360, 6, 446, 78>>, <<360, 6, 447, 71>>,
     <<360, 6, 448, 64>>, <<360, 6, 449, 57>>, <<360, 6, 450, 50>>,
     <<360, 6, 451, 43>>, <<360, 6, 452, 36>>, <<360, 6, 453, 29>>,
     <<360, 6, 454, 22>>, <<360, 6, 455, 15>>, <<396, 6, 320, 200>>,
     <<405, 6, 325, 68>>, <<420, 4, 323, 107>>}

BoundaryCandidates ==
    {[ctype |-> "list",
      elems |-> <<Num(d[1]), Num(100 * d[2]), Num(d[3]), Num(d[4])>>] :
        d \in G1RoundsAbove \cup G1AtLimit \cup G2AtLimit}

\* Candidates with decimal.Decimal elements at every choice of positions.
DecimalCandidates ==
    {[ctype |-> "list",
      elems |-> [i \in 1..4 |-> IF i \in D THEN Dec(b[i]) ELSE Num(b[i])]] :
        D \in (SUBSET (1..4)) \ {{}},
        b \in {<<500, 700, 500, 100>>, <<300, 0, 200, 10>>,
               <<700 + 100 * Margin, 700, 500, 100>>, <<500, 750, 500, 100>>}}

\* Designs at and around the corners of the bounds, each as a list and as a
\* tuple.
CallElems ==
    {<<Num(h), Num(i), Num(b), Num(w)>> :
        h \in {300, 500, 700 + 100 * Margin}, i \in {0, 700, 750},
        b \in {200, 500}, w \in {10, 100}}
    \cup {<<Num(500), [t |-> "nan", v |-> 0], Num(500), Num(100)>>,
          <<Num(500), Num(700), Num(500)>>}

CallCandidates ==
    {[ctype |-> ct, elems |-> s] : ct \in {"list", "tuple"}, s \in CallElems}

\* The candidates the callers of the state machine build themselves and pass
\* to evaluate_solution: a feasible design, one whose h1 rounds to 8, and a
\* list of three elements.
PassedCandidates ==
    {[ctype |-> "list", elems |-> <<Num(500), Num(700), Num(500), Num(100)>>],
     [ctype |-> "tuple", elems |-> <<Num(500), Num(750), Num(500), Num(100)>>],
     [ctype |-> "list", elems |-> <<Num(500), Num(700), Num(500)>>]}

Candidates ==
    FourCandidates \cup CallCandidates \cup BoundaryCandidates
        \cup DecimalCandidates
        \cup OtherLengthCandidates \cup OtherTypeCandidates

\* ---- Python built-ins used by the code ----

\* PyRound with the fraction dropped instead of rounded.
PyRound_Floor(c) == c \div 100

\* round(x) on a float given in hundredths: nearest integer, ties to even.
PyRound(c) ==
    LET q == c \div 100
        r == c % 100
    IN  IF r < 50 THEN q
        ELSE IF r > 50 THEN q + 1
        ELSE IF q % 2 = 0 THEN q ELSE q + 1

\* seq[i] with Python's 0-based index; a negative index counts from the end.
PyIndexInRange(seq, i) == (0 - Len(seq)) <= i /\ i < Len(seq)

PyIndex(seq, i) == IF i >= 0 THEN seq[i + 1] ELSE seq[Len(seq) + i + 1]

\* lo <= x <= hi on an element: an exception for a non-numeric object,
\* False for NaN and for an infinity (every bound is finite).
CompareRaises(e) == e.t = "str"

IsReal(e) == e.t \in {"num", "dec"}

\* The bounds, in hundredths, whose float is greater than the decimal value:
\* the float 0.1 is 0.1000000000000000055...; every other bound is exact.
FloatAboveDecimal == {10}

\* bound <= x and x <= bound, the bound a float.  A Decimal is compared with
\* the exact value of the float, a float or int with the float itself.
BoundLe(b, e) ==
    IF e.t = "dec" /\ b \in FloatAboveDecimal THEN b < e.v ELSE b <= e.v

LeBound(e, b) == e.v <= b

Between(lo, e, hi) == IsReal(e) /\ BoundLe(lo, e) /\ LeBound(e, hi)

\* The arithmetic of lines 93-95 raises (TypeError) when H, b1 or b2 is a
\* Decimal: each of them meets a float operand.
ArithmeticRaises(eH, eb1, eb2) == \E e \in {eH, eb1, eb2} : e.t = "dec"

\* ---- outcomes of a call ----
NoResult ==
    [kind |-> "none", at |-> "none", exc |-> "none", value |-> [w |-> 0, f |-> 0],
     index |-> {}]

Return(at, val, idx) ==
    [kind |-> "return", at |-> at, exc |-> "none", value |-> val, index |-> idx]

Raise(at, exc, idx) ==
    [kind |-> "raise", at |-> at, exc |-> exc, value |-> [w |-> 0, f |-> 0],
     index |-> idx]

\* ---- arithmetic of evaluate_solution ----

\* a * x as two limbs of base 10^4 (a >= 0).
Mul(a, x) == [hi |-> a * (x \div Base), lo |-> a * (x % Base)]

Norm(hi, lo) == [hi |-> hi + (lo \div Base), lo |-> lo % Base]

\* MomentOfInertia with the web height taken as 2*fh1 - H.
MomentOfInertia_WebSign(H, fh1, b1, b2) ==
    LET d     == 2 * fh1 - H
        e     == H - fh1
        term1 == Mul(b2, d * d * d)
        t2a   == Mul(2 * b1, fh1 * fh1 * fh1)
        t2b   == Mul(6 * b1, fh1 * e * e)
    IN  Norm(term1.hi + t2a.hi + t2b.hi, term1.lo + t2a.lo + t2b.lo)

\* N = 12 * 10^8 * I for
\*   term1 = (1/12) * b2 * (H - 2*fh1)^3
\*   term2 = 2 * ((1/12) * b1 * fh1^3 + (b1 * fh1 * (H - fh1)^2) / 4)
\*   I = term1 + term2
\* with H, fh1, b1, b2 in hundredths:
\*   12 * 10^8 * term1 = b2 * (H - 2*fh1)^3
\*   12 * 10^8 * term2 = 2 * b1 * fh1^3 + 6 * b1 * fh1 * (H - fh1)^2
MomentOfInertia(H, fh1, b1, b2) ==
    LET d     == H - 2 * fh1
        e     == H - fh1
        term1 == Mul(b2, d * d * d)
        t2a   == Mul(2 * b1, fh1 * fh1 * fh1)
        t2b   == Mul(6 * b1, fh1 * e * e)
    IN  Norm(term1.hi + t2a.hi + t2b.hi, term1.lo + t2a.lo + t2b.lo)

\* I <= 0
NonPositive(I) == I.hi < 0 \/ (I.hi = 0 /\ I.lo = 0)

\* g1 = P * L * H / (2 * I) > 5000.  For I > 0 this is P*L*H > 10000*I,
\* that is N < 1200 * P * L * H(hundredths) = K * 100 with K = 12 * P * L * H,
\* and K * 100 = (K \div 100) * 10^4 + (K % 100) * 100.  Where N = K * 100
\* (g1 exactly 5000) the code's float g1 decides: G1RoundsAbove.
G1Exceeds(s, H, h1, b1, b2, I) ==
    LET K == 12 * s.P * s.L * H
        q == K \div 100
        r == 100 * (K % 100)
    IN  \/ I.hi < q
        \/ I.hi = q /\ I.lo < r
        \/ I.hi = q /\ I.lo = r /\ <<H, h1, b1, b2>> \in G1RoundsAbove

\* G2Exceeds with L squared instead of cubed.
G2Exceeds_Squared(s, I) == I.hi < (s.P * s.L * s.L) \div (s.E \div 400000)

\* g2 = P * L^3 / (3 * E * I) > 0.10.  For I > 0 this is 10*P*L^3 > 3*E*I,
\* that is N < 4 * 10^9 * P * L^3 / E = (P * L^3 / (E / 400000)) * 10^4.
G2Exceeds(s, I) == I.hi < (s.P * s.L * s.L * s.L) \div (s.E \div 400000)

\* Volume with the web term subtracted.
Volume_WebSubtracted(s, H, fh1, b1, b2) ==
    LET v == (2 * fh1 * b1 - (H - 2 * fh1) * b2) * s.L
    IN  [w |-> v \div Base, f |-> v % Base]

\* volume = (2 * fh1 * b1 + (H - 2 * fh1) * b2) * L
Volume(s, H, fh1, b1, b2) ==
    LET v == (2 * fh1 * b1 + (H - 2 * fh1) * b2) * s.L
    IN  [w |-> v \div Base, f |-> v % Base]

\* h1 < bounds["h1"][0] or h1 > bounds["h1"][1]
H1OutOfBounds(s, h1) == h1 < s.bounds.h1[1] \/ h1 > s.bounds.h1[2]

\* The three continuous checks, in the order of the code, from the first one
\* that decides: "ok", or the name of the variable whose check returned the
\* penalty or raised.
BoundsCheck(s, eH, eb1, eb2) ==
    IF CompareRaises(eH) THEN <<"H", "raise">>
    ELSE IF ~Between(s.bounds.H[1], eH, s.bounds.H[2]) THEN <<"H", "penalty">>
    ELSE IF CompareRaises(eb1) THEN <<"b1", "raise">>
    ELSE IF ~Between(s.bounds.b1[1], eb1, s.bounds.b1[2]) THEN <<"b1", "penalty">>
    ELSE IF CompareRaises(eb2) THEN <<"b2", "raise">>
    ELSE IF ~Between(s.bounds.b2[1], eb2, s.bounds.b2[2]) THEN <<"b2", "penalty">>
    ELSE <<"ok", "ok">>

\* The exception int(round(x)) raises for a non-real x.
RoundException(e) ==
    IF e.t = "nan" THEN "ValueError"
    ELSE IF e.t = "inf" THEN "OverflowError"
    ELSE "TypeError"

evaluate_solution(s, sol) ==
    IF ~(sol.ctype \in {"list", "tuple"}) \/ Len(sol.elems) # 4
    THEN Return("arity", PENALTY, {})
    ELSE
    LET eH  == sol.elems[1]
        eh1 == sol.elems[2]
        eb1 == sol.elems[3]
        eb2 == sol.elems[4]
    IN  IF ~IsReal(eh1) THEN Raise("round", RoundException(eh1), {})
        ELSE
        LET h1 == PyRound(eh1.v)
        IN  IF H1OutOfBounds(s, h1) THEN Return("h1", PENALTY, {})
            ELSE IF ~PyIndexInRange(s.possibleValues, h1)
            THEN Raise("index", "IndexError", {h1})
            ELSE
            LET fh1 == PyIndex(s.possibleValues, h1)
                chk == BoundsCheck(s, eH, eb1, eb2)
            IN  IF chk[2] = "raise" THEN Raise(chk[1], "TypeError", {h1})
                ELSE IF chk[2] = "penalty" THEN Return(chk[1], PENALTY, {h1})
                ELSE IF ArithmeticRaises(eH, eb1, eb2)
                THEN Return("except", PENALTY, {h1})
                ELSE
                LET I == MomentOfInertia(eH.v, fh1, eb1.v, eb2.v)
                IN  IF NonPositive(I) THEN Return("inertia", PENALTY, {h1})
                    ELSE IF G1Exceeds(s, eH.v, h1, eb1.v, eb2.v, I) \/ G2Exceeds(s, I)
                    THEN Return("constraint", PENALTY, {h1})
                    ELSE Return("volume",
                                Volume(s, eH.v, fh1, eb1.v, eb2.v), {h1})

\* ---- the generator of the random module ----

\* random.uniform and random.randint draw from one generator that belongs to
\* the random module, not to the instance: every caller in the process reads
\* and writes the same generator state.  A draw returns a word computed from
\* the state and moves the state one place along the generator's sequence.
\* Kept of the state are n, the number of words drawn so far, and word, the
\* word the next draw returns, as a fraction word / RandDen of the range of
\* a word.  The word after it is computed from the rest of the state, which
\* is not kept: it can be any word.  The module seeds the generator from the
\* operating system when it is imported, so the first word is any word.
Words == 0..RandDen

GeneratorStates == [n : {0}, word : Words]

\* The word the next draw returns.
random(g) == g.word

\* The state the draw leaves behind; w is the word that comes next.
Advance(g, w) == [n |-> g.n + 1, word |-> w]

\* random.uniform(a, b) = a + (b - a) * random(), random() = w / RandDen.
uniform(a, b, w) == a + ((b - a) * w) \div RandDen

\* int.bit_length
RECURSIVE bit_length(_)
bit_length(n) == IF n = 0 THEN 0 ELSE 1 + bit_length(n \div 2)

\* random.getrandbits(k): the top k bits of the word.
getrandbits(k, w) == ((2^k - 1) * w) \div RandDen

\* random.randint(a, b) is a + _randbelow(b - a + 1), and _randbelow(n) draws
\* getrandbits(n.bit_length()) until the value is below n.  Rejected(a, b, w)
\* says the draw of word w is one it repeats; randint(a, b, w) is the value
\* when it is not.
Rejected(a, b, w) == getrandbits(bit_length(b - a + 1), w) >= b - a + 1

randint(a, b, w) == a + getrandbits(bit_length(b - a + 1), w)

\* ---- random_solution, line by line ----

\* line 122
random_solution_H(s, w) == Num(uniform(s.bounds.H[1], s.bounds.H[2], w))

\* line 123
random_solution_h1(s, w) == Num(100 * randint(s.bounds.h1[1], s.bounds.h1[2], w))

\* line 124
random_solution_b1(s, w) == Num(uniform(s.bounds.b1[1], s.bounds.b1[2], w))

\* line 125 with b2 drawn from the bounds of b1.
random_solution_b2_FromB1(s, w) ==
    Num(uniform(s.bounds.b1[1], s.bounds.b1[2], w))

\* line 125
random_solution_b2(s, w) == Num(uniform(s.bounds.b2[1], s.bounds.b2[2], w))

\* line 126
random_solution(H, h1, b1, b2) ==
    [ctype |-> "list", elems |-> <<H, h1, b1, b2>>]

\* ---- the state machine of the calls ----

\* Each caller is a thread of the process.  frames[p] is the activation of
\* random_solution caller p is in: pc is "idle" outside the method and the
\* number of the line it is in or comes to next inside it; H, h1, b1 are the
\* locals assigned so far.  A step of random_solution is one draw from the
\* shared generator: lines 122, 124 and 125 make one draw each, line 123
\* makes one draw and as many more as it rejects.  evaluate_solution reads
\* only its argument and the fields of the instance, which no line of the
\* class assigns after __init__; a call of it is one step.  solution, origin
\* and result describe the call that returned last: its candidate, where the
\* candidate came from, and the outcome of evaluate_solution on it.
Callers == 1..NumCallers

NoCandidate == [ctype |-> "other", elems |-> <<>>]

Idle == [pc |-> "idle", H |-> Num(0), h1 |-> Num(0), b1 |-> Num(0)]

Init ==
    /\ self = InitSelf
    /\ rng \in GeneratorStates
    /\ frames = [p \in Callers |-> Idle]
    /\ solution = NoCandidate
    /\ origin = "none"
    /\ result = NoResult

\* A caller passes candidate c to evaluate_solution.
EvaluateSolution(c) ==
    /\ solution' = c
    /\ origin' = "caller"
    /\ result' = evaluate_solution(self, c)
    /\ UNCHANGED <<self, rng, frames>>

\* One draw: the generator moves on, to a state with any next word.
Draw == rng.n < MaxDraws /\ \E w \in Words : rng' = Advance(rng, w)

\* Caller p enters random_solution and runs line 122.
RandomSolution_H(p) ==
    /\ frames[p].pc = "idle"
    /\ frames' = [frames EXCEPT ![p].pc = "123",
                                ![p].H = random_solution_H(self, random(rng))]
    /\ Draw
    /\ UNCHANGED <<self, solution, origin, result>>

\* Caller p makes a draw of line 123: the line ends when the draw is not
\* rejected, and the caller is still in it, with a draw to make, when it is.
RandomSolution_h1(p) ==
    /\ frames[p].pc = "123"
    /\ LET lo == self.bounds.h1[1]
           hi == self.bounds.h1[2]
       IN  IF Rejected(lo, hi, random(rng))
           THEN UNCHANGED frames
           ELSE frames' =
                    [frames EXCEPT ![p].pc = "124",
                                   ![p].h1 = random_solution_h1(self, random(rng))]
    /\ Draw
    /\ UNCHANGED <<self, solution, origin, result>>

\* Caller p runs line 124.
RandomSolution_b1(p) ==
    /\ frames[p].pc = "124"
    /\ frames' = [frames EXCEPT ![p].pc = "125",
                                ![p].b1 = random_solution_b1(self, random(rng))]
    /\ Draw
    /\ UNCHANGED <<self, solution, origin, result>>

\* Caller p runs lines 125 and 126: the last draw, and the return of the list.
RandomSolution_b2(p) ==
    /\ frames[p].pc = "125"
    /\ solution' = random_solution(frames[p].H, frames[p].h1, frames[p].b1,
                                   random_solution_b2(self, random(rng)))
    /\ origin' = "random_solution"
    /\ result' = NoResult
    /\ frames' = [frames EXCEPT ![p] = Idle]
    /\ Draw
    /\ UNCHANGED self

\* A step of caller p inside random_solution.
RandomSolution(p) ==
    \/ RandomSolution_H(p)
    \/ RandomSolution_h1(p)
    \/ RandomSolution_b1(p)
    \/ RandomSolution_b2(p)

\* A caller passes the candidate random_solution returned last to
\* evaluate_solution.
EvaluateSampled ==
    /\ origin = "random_solution"
    /\ result' = evaluate_solution(self, solution)
    /\ UNCHANGED <<self, rng, frames, solution, origin>>

Next ==
    \/ \E c \in PassedCandidates : EvaluateSolution(c)
    \/ \E p \in Callers : RandomSolution(p)
    \/ EvaluateSampled

Spec == Init /\ [][Next]_vars

\* ---- evaluate_solution as a function: one call on each candidate ----

InitEval ==
    /\ self = InitSelf
    /\ rng = [n |-> 0, word |-> 0]
    /\ frames = [p \in Callers |-> Idle]
    /\ solution \in Candidates
    /\ origin = "none"
    /\ result = NoResult

NextEval == EvaluateSolution(solution)

SpecEval == InitEval /\ [][NextEval]_vars

\* ---- vocabulary of the properties ----

Evaluated == result.kind # "none"

IsFour == solution.ctype \in {"list", "tuple"} /\ Len(solution.elems) = 4

AllNumbers == \A i \in 1..4 : solution.elems[i].t = "num"

ValH  == solution.elems[1].v
ValH1 == solution.elems[2].v
ValB1 == solution.elems[3].v
ValB2 == solution.elems[4].v

Abs(x) == IF x < 0 THEN 0 - x ELSE x

\* The integer nearest to c hundredths, the even one of the two at a tie.
NearestInt(c) ==
    CHOOSE n \in ((c \div 100) - 1)..((c \div 100) + 2) :
        \/ 2 * Abs(100 * n - c) < 100
        \/ 2 * Abs(100 * n - c) = 100 /\ n % 2 = 0

\* A number outside the closed interval [lo, hi].
Outside(e, lo, hi) == IsReal(e) /\ (e.v < lo \/ e.v > hi)

\* The candidate gets past the arity, h1 and continuous-bounds checks.
PassesChecks ==
    /\ IsFour /\ AllNumbers
    /\ NearestInt(ValH1) \in 0..7
    /\ 300 <= ValH /\ ValH <= 700
    /\ 200 <= ValB1 /\ ValB1 <= 1200
    /\ 10 <= ValB2 /\ ValB2 <= 200

FlangeHeight == <<10, 26, 35, 50, 65, 75, 90, 100>>[NearestInt(ValH1) + 1]

\* 12 * 10^8 * I of the candidate, upper limb (units of 10^4).
InertiaOfSolution == MomentOfInertia(ValH, FlangeHeight, ValB1, ValB2)

\* g1 > 5000 with P = 1000, L = 36:  36000 * H / (2 * I) > 5000  iff
\* I < 3.6 * H  iff  N < 4320 * H(hundredths) * 10^4.
StressExceeded == InertiaOfSolution.hi < 4320 * ValH

\* g2 > 0.10 with E = 1e7:  46656000 / (3e7 * I) > 0.10  iff  I < 15.552  iff
\* N < 1866240 * 10^4.
DeflectionExceeded == InertiaOfSolution.hi < 1866240

ReturnsPenalty ==
    result.kind = "return" /\ result.value = [w |-> 1000000000, f |-> 0]

Less(a, b) == a.w < b.w \/ (a.w = b.w /\ a.f < b.f)

\* ---- C1 ----
\* C1: a 4-element list or tuple of numbers with round(h1) in 0..7, H, b1, b2
\* inside their closed intervals, I > 0, g1 <= 5000 and g2 <= 0.10 evaluates
\* to (2*fh*b1 + (H - 2*fh)*b2) * 36 with fh = possibleValues[round(h1)], and
\* [5.0, 7, 5.0, 1.0] evaluates to 468.0.
C1_FeasibleVolume ==
    /\ (Evaluated /\ PassesChecks /\ ~NonPositive(InertiaOfSolution)
          /\ ~StressExceeded /\ ~DeflectionExceeded)
       => /\ result.kind = "return"
          /\ LET v == (2 * FlangeHeight * ValB1
                          + (ValH - 2 * FlangeHeight) * ValB2) * 36
             IN  result.value = [w |-> v \div 10000, f |-> v % 10000]
    /\ (Evaluated /\ IsFour
          /\ solution.elems = <<Num(500), Num(700), Num(500), Num(100)>>)
       => result.kind = "return" /\ result.value = [w |-> 468, f |-> 0]

\* ---- C2 ----
\* C2: a candidate that passes the arity, h1 and bounds checks and has
\* g1 > 5000 or g2 > 0.10 evaluates to the penalty 1e9.
C2_ConstraintPenalty ==
    (Evaluated /\ PassesChecks /\ (StressExceeded \/ DeflectionExceeded))
    => ReturnsPenalty

C2_Witness ==
    /\ Evaluated /\ PassesChecks
    /\ DeflectionExceeded /\ ~StressExceeded
    /\ result.at = "constraint"

\* ---- C3 ----
\* C3: every call of evaluate_solution returns a finite real and raises no
\* exception.
C3_Total == Evaluated => result.kind = "return"

\* ---- C4 ----
\* C4: a candidate that is not a list or tuple, or has a length other than 4,
\* or has a non-numeric element, evaluates to exactly 1e9.
C4_MalformedPenalty ==
    (Evaluated /\ (~IsFour \/ \E i \in 1..4 : solution.elems[i].t = "str"))
    => ReturnsPenalty

\* ---- C5 ----
\* C5: a 4-element candidate whose h1 rounds to an integer outside 0..7
\* evaluates to 1e9 whatever H, b1 and b2 are, and possibleValues is never
\* indexed outside 0..7.
C5_H1Penalty ==
    /\ (Evaluated /\ IsFour /\ IsReal(solution.elems[2])
          /\ ~(NearestInt(ValH1) \in 0..7))
       => ReturnsPenalty /\ result.index = {}
    /\ result.index \subseteq 0..7

C5_Witness ==
    /\ Evaluated /\ IsFour
    /\ solution.elems[2] = Num(750)
    /\ solution.elems[1].t = "str"
    /\ ReturnsPenalty

\* ---- C6 ----
\* C6: a 4-element candidate with H, b1 or b2 outside its closed interval
\* evaluates to 1e9 whatever the other values are.
C6_BoundsPenalty ==
    (Evaluated /\ IsFour
       /\ (\/ Outside(solution.elems[1], 300, 700)
           \/ Outside(solution.elems[3], 200, 1200)
           \/ Outside(solution.elems[4], 10, 200)))
    => ReturnsPenalty

\* ---- C9 ----
\* C9: for a candidate that passes the arity, h1 and bounds checks the moment
\* of inertia is strictly positive, and no call returns from the I <= 0 branch.
C9_InertiaPositive ==
    /\ (Evaluated /\ PassesChecks)
       => InertiaOfSolution.hi > 0 \/ InertiaOfSolution.lo > 0
    /\ result.at # "inertia"

C9_Witness ==
    /\ Evaluated /\ PassesChecks
    /\ solution.elems = <<Num(300), Num(0), Num(200), Num(10)>>
    /\ result.at = "constraint"

\* ---- C10 ----
\* C10: a returned volume is strictly greater than 0 and strictly less than
\* the penalty 1e9.
C10_VolumeRange ==
    result.at = "volume"
    => /\ Less([w |-> 0, f |-> 0], result.value)
       /\ Less(result.value, [w |-> 1000000000, f |-> 0])

C10_Witness ==
    /\ result.at = "volume"
    /\ solution.elems = <<Num(700), Num(0), Num(200), Num(200)>>

\* ---- C7 ----
\* C7: every candidate random_solution returns is a list [H, h1, b1, b2] with
\* H in [3.0, 7.0], h1 an integer in 0..7, b1 in [2.0, 12.0], b2 in
\* [0.1, 2.0]; evaluate_solution on it gets past the arity, h1 and bounds
\* checks, so it returns from the constraint check or with the volume.
C7_SampledInBounds ==
    origin = "random_solution"
    => /\ solution.ctype = "list" /\ Len(solution.elems) = 4 /\ AllNumbers
       /\ 300 <= ValH /\ ValH <= 700
       /\ ValH1 \in {100 * k : k \in 0..7}
       /\ 200 <= ValB1 /\ ValB1 <= 1200
       /\ 10 <= ValB2 /\ ValB2 <= 200
       /\ Evaluated => result.at \in {"constraint", "volume"}

C7_Witness ==
    /\ origin = "random_solution" /\ Evaluated
    /\ ValH = 700 /\ ValB2 = 10
    /\ result.at \in {"constraint", "volume"}

\* ---- C8 ----
\* Two calls of evaluate_solution on the same candidate return the same value.
SameValueAgain ==
    (solution' = solution /\ Evaluated /\ Evaluated') => result' = result

\* The call caller q is inside has a draw still to make: it reads the
\* generator at its next step.
ReadsGenerator(q) == frames[q].pc \in {"123", "124", "125"}

\* C8: in any interleaving of the calls of concurrent callers, no call
\* writes state that another call reads, and evaluate_solution returns the
\* same value on the same candidate every time.  Every call reads the
\* instance (P, E, L, possibleValues, bounds); a random_solution call with a
\* draw still to make reads the generator.  Taken for the calls that are in
\* progress together: no step writes the instance, and a step of one caller
\* inside random_solution leaves the generator unchanged when the call of
\* another caller is about to draw.
C8_NoSharedWrites ==
    [][/\ self' = self
       /\ \A p, q \in Callers :
              (p # q /\ RandomSolution(p) /\ ReadsGenerator(q)) => rng' = rng
       /\ SameValueAgain]_vars

====
